---- MODULE Spec2Model ----
(***************************************************************************)
(* NetSken backend: the scan-session lifecycle of backend/app.py and the   *)
(* vulnerability query, statistics, device-report and delete endpoints of  *)
(* backend/api/routes/vulnerabilities.py.                                  *)
(***************************************************************************)
EXTENDS Integers, Sequences, FiniteSets, TLC

VARIABLES
    scans,        \* app.py `scans`: session id -> scan record
    now,          \* the wall clock read by datetime.utcnow()
    resp,         \* the last response of the scan endpoints
    polls,        \* history: number of GetStatus calls made on each session
    snap,         \* history: the latest get_scan_status body returned for each session
    pc,           \* per worker thread: position inside get_scan_status
    tsid,         \* per worker thread: the session id of its request
    treg,         \* per worker thread: the progress value it has loaded
    applied,      \* history: executions of the store of line 56, per session
    completions,  \* history: executions of line 58, per session
    store,        \* the Vulnerability table
    last,         \* the last response of the vulnerability endpoints
    walk,         \* history: a client's walk over the pages of one query
    deleted       \* history: ids removed by delete_vulnerability

scanVars == <<scans, now, resp, polls, snap>>
concVars == <<pc, tsid, treg, applied, completions>>
vulnVars == <<store, last, walk, deleted>>
vars == <<scans, now, resp, polls, snap, pc, tsid, treg, applied, completions,
          store, last, walk, deleted>>

(***************************************************************************)
(* Bounds of the model.                                                    *)
(***************************************************************************)
MaxSessions == 2
MaxPolls == 12
MaxClock == 1
MaxVulns == 2
MaxQueryVulns == 1
MaxPageVulns == 3
MaxLimit == 2
MaxOffset == 2
MaxTime == 2
MaxHours == 2

SessionIds == 1..MaxSessions
TargetRanges == {"10.0.0.0/24"}

(***************************************************************************)
(* Python floats.  A non-negative double below 4.0 that is a multiple of   *)
(* 2^-56 is held as two 28-bit limbs: its value is (hi * 2^28 + lo) / 2^56.*)
(* Every value the scan code computes has this form: 0.1 is                *)
(* 0x1.999999999999ap-4 = 0x1999999999999a / 2^56.                         *)
(***************************************************************************)
Limb == 2^28

Dbl(h, l) == [hi |-> h, lo |-> l]

Zero == Dbl(0, 0)
Tenth == Dbl(26843545, 161061274)
Half == Dbl(2^27, 0)
One == Dbl(2^28, 0)

DLeq(a, b) == a.hi < b.hi \/ (a.hi = b.hi /\ a.lo <= b.lo)

DGeq(a, b) == DLeq(b, a)

\* the number of bits by which hi * 2^28 + lo exceeds a 53-bit significand
RECURSIVE ExcessBits(_, _)
ExcessBits(h, d) == IF h < 2^(25 + d) THEN d ELSE ExcessBits(h, d + 1)

\* IEEE-754 round-to-nearest, ties-to-even, of the exact value hi * 2^28 + lo
RoundNearestEven(h, l) ==
    LET d == ExcessBits(h, 0)
        m == 2^d
        r == l % m
        q == l \div m
        up == 2 * r > m \/ (2 * r = m /\ q % 2 = 1)
        l2 == l - r + (IF up THEN m ELSE 0)
    IN  Dbl(h + l2 \div Limb, l2 % Limb)

\* a + b on doubles
FAdd(a, b) ==
    LET l == a.lo + b.lo
    IN  RoundNearestEven(a.hi + b.hi + l \div Limb, l % Limb)

\* a * n on doubles, n a small natural number converted to a double
FMulNat(a, n) ==
    LET l == a.lo * n
    IN  RoundNearestEven(a.hi * n + l \div Limb, l % Limb)

\* int(a): truncation toward zero of a non-negative double
Trunc(a) == a.hi \div Limb

(***************************************************************************)
(* Scan sessions (app.py).                                                 *)
(***************************************************************************)
NumDevices == 2

NoTime == -1

\* the scan record built by start_scan
NewScan(sid, target, t) ==
    [id |-> sid, target_range |-> target, scan_type |-> "network",
     status |-> "in_progress", created_at |-> t, completed_at |-> NoTime,
     progress |-> Zero, device_count |-> 0]

Complete_NoTimestamp(scan, t) ==
    [scan EXCEPT !.status = "completed", !.device_count = NumDevices]

\* lines 58-60: the transition to completed
Complete(scan, t) ==
    [scan EXCEPT !.status = "completed", !.completed_at = t,
                 !.device_count = NumDevices]

\* lines 56-60: one increment and, at the ceiling, the transition
Advance(scan, t) ==
    LET s1 == [scan EXCEPT !.progress = FAdd(scan.progress, Tenth)]
    IN  IF DGeq(s1.progress, One) THEN Complete(s1, t) ELSE s1

PollScan_AlwaysAdvance(scan, t) == Advance(scan, t)

\* lines 55-60: the mutation get_scan_status makes
PollScan(scan, t) ==
    IF scan.status = "in_progress" THEN Advance(scan, t) ELSE scan

\* lines 62-70: the body get_scan_status returns
StatusBody(scan) ==
    [session_id |-> scan.id, status |-> scan.status, progress |-> scan.progress,
     current_task |-> "Scanning for devices...", estimated_time_remaining |-> 10,
     devices_found |-> Trunc(FMulNat(scan.progress, NumDevices)),
     vulnerabilities_found |-> IF DGeq(scan.progress, Half) THEN 1 ELSE 0]

NoResp == [op |-> "none", sid |-> 0, code |-> 0]

NoBody == [status |-> "none"]

\* POST /api/scan/start
start_scan(target) ==
    /\ \E sid \in SessionIds \ DOMAIN scans :
          /\ scans' = [s \in DOMAIN scans \cup {sid} |->
                          IF s = sid THEN NewScan(sid, target, now) ELSE scans[s]]
          /\ resp' = [op |-> "start", sid |-> sid, code |-> 200,
                      body |-> NewScan(sid, target, now)]
    /\ UNCHANGED <<now, polls, snap>>
    /\ UNCHANGED concVars
    /\ UNCHANGED vulnVars

\* GET /api/scan/status/<session_id>, the session unknown
get_scan_status_unknown(sid) ==
    /\ sid \notin DOMAIN scans
    /\ resp' = [op |-> "status", sid |-> sid, code |-> 404]
    /\ UNCHANGED <<scans, now, polls, snap>>
    /\ UNCHANGED concVars
    /\ UNCHANGED vulnVars

\* GET /api/scan/status/<session_id>, run from request to response
get_scan_status(sid) ==
    /\ sid \in DOMAIN scans
    /\ polls[sid] < MaxPolls
    /\ scans' = [scans EXCEPT ![sid] = PollScan(scans[sid], now)]
    /\ resp' = [op |-> "status", sid |-> sid, code |-> 200,
                body |-> StatusBody(scans'[sid])]
    /\ polls' = [polls EXCEPT ![sid] = @ + 1]
    /\ snap' = [snap EXCEPT ![sid] = StatusBody(scans'[sid])]
    /\ UNCHANGED now
    /\ UNCHANGED concVars
    /\ UNCHANGED vulnVars

\* time passes
Tick ==
    /\ now < MaxClock
    /\ now' = now + 1
    /\ UNCHANGED <<scans, resp, polls, snap>>
    /\ UNCHANGED concVars
    /\ UNCHANGED vulnVars

(***************************************************************************)
(* get_scan_status as the threaded server runs it: each request on its own *)
(* worker thread, the reads and writes of the shared scan record           *)
(* interleaving between statements.                                        *)
(***************************************************************************)
Threads == {1, 2}

\* lines 51-53: look the session up; 404 when it is unknown
T_Begin(t, sid) ==
    /\ pc[t] = "idle"
    /\ IF sid \in DOMAIN scans
       THEN /\ polls[sid] < MaxPolls
            /\ polls' = [polls EXCEPT ![sid] = @ + 1]
            /\ pc' = [pc EXCEPT ![t] = "L55"]
            /\ tsid' = [tsid EXCEPT ![t] = sid]
            /\ UNCHANGED resp
       ELSE /\ resp' = [op |-> "status", sid |-> sid, code |-> 404]
            /\ UNCHANGED <<polls, pc, tsid>>
    /\ UNCHANGED <<scans, now, snap, treg, applied, completions>>
    /\ UNCHANGED vulnVars

\* line 55: if scan["status"] == "in_progress"
T_Check(t) ==
    /\ pc[t] = "L55"
    /\ pc' = [pc EXCEPT ![t] = IF scans[tsid[t]].status = "in_progress"
                                THEN "L56load" ELSE "L62"]
    /\ UNCHANGED <<tsid, treg, applied, completions>>
    /\ UNCHANGED scanVars
    /\ UNCHANGED vulnVars

\* line 56, first half: load scan["progress"]
T_Load(t) ==
    /\ pc[t] = "L56load"
    /\ treg' = [treg EXCEPT ![t] = scans[tsid[t]].progress]
    /\ pc' = [pc EXCEPT ![t] = "L56store"]
    /\ UNCHANGED <<tsid, applied, completions>>
    /\ UNCHANGED scanVars
    /\ UNCHANGED vulnVars

\* line 56, second half: store the loaded value plus 0.1
T_Store(t) ==
    /\ pc[t] = "L56store"
    /\ scans' = [scans EXCEPT ![tsid[t]].progress = FAdd(treg[t], Tenth)]
    /\ applied' = [applied EXCEPT ![tsid[t]] = @ + 1]
    /\ pc' = [pc EXCEPT ![t] = "L57"]
    /\ UNCHANGED <<now, resp, polls, snap, tsid, treg, completions>>
    /\ UNCHANGED vulnVars

\* line 57: if scan["progress"] >= 1.0
T_Test(t) ==
    /\ pc[t] = "L57"
    /\ pc' = [pc EXCEPT ![t] = IF DGeq(scans[tsid[t]].progress, One)
                                THEN "L58" ELSE "L62"]
    /\ UNCHANGED <<tsid, treg, applied, completions>>
    /\ UNCHANGED scanVars
    /\ UNCHANGED vulnVars

\* line 58: scan["status"] = "completed"
T_SetStatus(t) ==
    /\ pc[t] = "L58"
    /\ scans' = [scans EXCEPT ![tsid[t]].status = "completed"]
    /\ completions' = [completions EXCEPT ![tsid[t]] = @ + 1]
    /\ pc' = [pc EXCEPT ![t] = "L59"]
    /\ UNCHANGED <<now, resp, polls, snap, tsid, treg, applied>>
    /\ UNCHANGED vulnVars

\* line 59: scan["completed_at"] = now
T_SetCompletedAt(t) ==
    /\ pc[t] = "L59"
    /\ scans' = [scans EXCEPT ![tsid[t]].completed_at = now]
    /\ pc' = [pc EXCEPT ![t] = "L60"]
    /\ UNCHANGED <<now, resp, polls, snap, tsid, treg, applied, completions>>
    /\ UNCHANGED vulnVars

\* line 60: scan["device_count"] = len(devices)
T_SetDeviceCount(t) ==
    /\ pc[t] = "L60"
    /\ scans' = [scans EXCEPT ![tsid[t]].device_count = NumDevices]
    /\ pc' = [pc EXCEPT ![t] = "L62"]
    /\ UNCHANGED <<now, resp, polls, snap, tsid, treg, applied, completions>>
    /\ UNCHANGED vulnVars

\* lines 62-70: build and return the body
T_Return(t) ==
    /\ pc[t] = "L62"
    /\ resp' = [op |-> "status", sid |-> tsid[t], code |-> 200,
                body |-> StatusBody(scans[tsid[t]])]
    /\ snap' = [snap EXCEPT ![tsid[t]] = StatusBody(scans[tsid[t]])]
    /\ pc' = [pc EXCEPT ![t] = "idle"]
    /\ UNCHANGED <<scans, now, polls, tsid, treg, applied, completions>>
    /\ UNCHANGED vulnVars

(***************************************************************************)
(* The vulnerability endpoints (api/routes/vulnerabilities.py) over the    *)
(* Vulnerability and Device tables.                                        *)
(***************************************************************************)
\* Python None / SQL NULL in a string column
Null == "NULL"

\* the rows of the Device table
Devices == {"d1", "d2"}

\* the keys of grouped_vulns (line 229-235)
Buckets == {"critical", "high", "medium", "low", "info"}

\* Vulnerability.severity_score: the numeric rank of a severity
SeverityScore(sev) ==
    CASE sev = "critical" -> 4
      [] sev = "high" -> 3
      [] sev = "medium" -> 2
      [] sev = "low" -> 1
      [] OTHER -> 0

\* Python truthiness of an Optional[str] query parameter
Truthy(x) == x # Null /\ x # ""

Matches_AnyFilter(v, f) ==
    \/ (Truthy(f.device_id) /\ v.device_id = f.device_id)
    \/ (Truthy(f.scan_session_id) /\ v.scan_session_id = f.scan_session_id)
    \/ (Truthy(f.severity) /\ v.severity = f.severity)
    \/ (Truthy(f.source_tool) /\ v.source_tool = f.source_tool)
    \/ (Truthy(f.cve_id) /\ v.cve_id = f.cve_id)
    \/ (\A k \in DOMAIN f : ~Truthy(f[k]))

\* lines 31-44: the filters of get_vulnerabilities, each applied when truthy
Matches(v, f) ==
    /\ (Truthy(f.device_id) => v.device_id = f.device_id)
    /\ (Truthy(f.scan_session_id) => v.scan_session_id = f.scan_session_id)
    /\ (Truthy(f.severity) => v.severity = f.severity)
    /\ (Truthy(f.source_tool) => v.source_tool = f.source_tool)
    /\ (Truthy(f.cve_id) => v.cve_id = f.cve_id)

\* a may be returned before b under
\* ORDER BY severity_score DESC, detected_at DESC
MayPrecede(a, b) ==
    \/ SeverityScore(a.severity) > SeverityScore(b.severity)
    \/ /\ SeverityScore(a.severity) = SeverityScore(b.severity)
       /\ a.detected_at >= b.detected_at

RECURSIVE Perms(_)
Perms(S) ==
    IF S = {} THEN {<<>>}
    ELSE UNION {{<<x>> \o p : p \in Perms(S \ {x})} : x \in S}

\* the row sequences the database may return for the ordered query over S:
\* rows that tie on both sort keys come in any order, chosen per execution
OrderBy(S) ==
    {p \in Perms(S) : \A i \in 1..(Len(p) - 1) : MayPrecede(p[i], p[i + 1])}

\* .offset(offset).limit(limit) applied to the rows
Slice(rows, offset, limit) ==
    SubSeq(rows, offset + 1,
           IF offset + limit < Len(rows) THEN offset + limit ELSE Len(rows))

\* lines 28-86: GET /vulnerabilities
get_vulnerabilities(f, limit, offset) ==
    LET matched == {v \in store : Matches(v, f)}
    IN  /\ \E rows \in OrderBy(matched) :
           last' = [op |-> "query", filters |-> f, limit |-> limit,
                    offset |-> offset, code |-> 200,
                    vulnerabilities |-> Slice(rows, offset, limit),
                    total_count |-> Cardinality(matched),
                    returned_count |-> Len(Slice(rows, offset, limit))]
        /\ UNCHANGED <<store, deleted>>
        /\ UNCHANGED scanVars
        /\ UNCHANGED concVars

\* lines 95-119: GET /vulnerabilities/{vulnerability_id}
get_vulnerability_detail(id) ==
    /\ last' = IF \E v \in store : v.id = id
               THEN [op |-> "get", id |-> id, code |-> 200,
                     vulnerability |-> CHOOSE v \in store : v.id = id]
               ELSE [op |-> "get", id |-> id, code |-> 404]
    /\ UNCHANGED <<store, walk, deleted>>
    /\ UNCHANGED scanVars
    /\ UNCHANGED concVars

WithoutVuln_SameDevice(S, v) == {w \in S : w.device_id # v.device_id}

\* lines 303-304: db.delete(vulnerability); db.commit()
WithoutVuln(S, v) == S \ {v}

\* lines 299-306: DELETE /vulnerabilities/{vulnerability_id}
delete_vulnerability(id) ==
    /\ IF \E v \in store : v.id = id
       THEN /\ store' = WithoutVuln(store, CHOOSE v \in store : v.id = id)
            /\ deleted' = deleted \cup {id}
            /\ last' = [op |-> "delete", id |-> id, code |-> 200]
       ELSE /\ last' = [op |-> "delete", id |-> id, code |-> 404]
            /\ UNCHANGED <<store, deleted>>
    /\ UNCHANGED walk
    /\ UNCHANGED scanVars
    /\ UNCHANGED concVars

\* lines 147-149: severity_distribution
SeverityDistribution(S) ==
    [k \in {v.severity : v \in S} |-> Cardinality({v \in S : v.severity = k})]

\* lines 152-154: source_tool_distribution
SourceToolDistribution(S) ==
    [k \in {v.source_tool : v \in S} |->
        Cardinality({v \in S : v.source_tool = k})]

\* lines 157-159: the occurrences of each truthy cve_id
CveCounts(S) ==
    [k \in {v.cve_id : v \in {w \in S : Truthy(w.cve_id)}} |->
        Cardinality({v \in S : v.cve_id = k})]

TopCvesLimit == 10

\* line 162: the TopCvesLimit entries of highest count (ties in the order
\* the rows came, which the query leaves open)
TopCves(counts) ==
    IF Cardinality(DOMAIN counts) <= TopCvesLimit THEN {counts}
    ELSE {[k \in K |-> counts[k]] :
             K \in {K \in SUBSET DOMAIN counts :
                       /\ Cardinality(K) = TopCvesLimit
                       /\ \A a \in K, b \in DOMAIN counts \ K :
                             counts[a] >= counts[b]}}

RecentVulns_After(hours) == {v \in store : v.detected_at > now - hours}

\* lines 128-133: the vulnerabilities detected at or after the cutoff
RecentVulns(hours) == {v \in store : v.detected_at >= now - hours}

\* lines 128-164: GET /vulnerabilities/stats/summary
get_vulnerability_stats(hours) ==
    LET recent == RecentVulns(hours)
    IN  /\ \E top \in TopCves(CveCounts(recent)) :
              last' = [op |-> "stats", hours |-> hours, code |-> 200, at |-> now,
                       total_vulnerabilities |-> Cardinality(recent),
                       severity_distribution |-> SeverityDistribution(recent),
                       source_tool_distribution |-> SourceToolDistribution(recent),
                       top_cves |-> top,
                       critical_vulnerabilities |->
                           Cardinality({v \in recent : v.severity = "critical"}),
                       high_vulnerabilities |->
                           Cardinality({v \in recent : v.severity = "high"}),
                       devices_affected |->
                           Cardinality({v.device_id :
                                           v \in {w \in recent : Truthy(w.device_id)}})]
        /\ UNCHANGED <<store, walk, deleted>>
        /\ UNCHANGED scanVars
        /\ UNCHANGED concVars

RECURSIVE GroupInto_LowWithInfo(_, _)
GroupInto_LowWithInfo(rows, sev) ==
    IF rows = <<>> THEN <<>>
    ELSE (IF Head(rows).severity = sev
             \/ (sev = "info" /\ Head(rows).severity = "low")
          THEN <<Head(rows)>> ELSE <<>>)
         \o GroupInto_LowWithInfo(Tail(rows), sev)

\* lines 237-249: the rows appended to grouped_vulns[sev], in row order
RECURSIVE GroupInto(_, _)
GroupInto(rows, sev) ==
    IF rows = <<>> THEN <<>>
    ELSE (IF Head(rows).severity = sev THEN <<Head(rows)>> ELSE <<>>)
         \o GroupInto(Tail(rows), sev)

\* lines 217-268: GET /vulnerabilities/device/{device_id}
get_device_vulnerabilities(device_id) ==
    /\ IF device_id \notin Devices
       THEN last' = [op |-> "device", device_id |-> device_id, code |-> 404]
       ELSE LET vulns == {v \in store : v.device_id = device_id}
            IN  \E rows \in OrderBy(vulns) :
                   IF \E v \in vulns : v.severity \notin Buckets
                   THEN \* grouped_vulns[vuln.severity] raises KeyError
                        last' = [op |-> "device", device_id |-> device_id,
                                 code |-> 500]
                   ELSE LET grouped == [sev \in Buckets |-> GroupInto(rows, sev)]
                        IN  last' = [op |-> "device", device_id |-> device_id,
                                     code |-> 200,
                                     total |-> Len(rows),
                                     counts |-> [sev \in Buckets |->
                                                    Len(grouped[sev])],
                                     vulnerabilities |-> grouped]
    /\ UNCHANGED <<store, walk, deleted>>
    /\ UNCHANGED scanVars
    /\ UNCHANGED concVars

\* a client reading one query page by page: offsets 0, limit, 2*limit, ...
BeginWalk(f, limit) ==
    /\ ~walk.on
    /\ walk' = [on |-> TRUE, filters |-> f, limit |-> limit, offset |-> 0,
                pages |-> <<>>, done |-> FALSE]
    /\ UNCHANGED <<store, last, deleted>>
    /\ UNCHANGED scanVars
    /\ UNCHANGED concVars

FetchPage ==
    /\ walk.on /\ ~walk.done
    /\ get_vulnerabilities(walk.filters, walk.limit, walk.offset)
    /\ walk' = [walk EXCEPT !.pages = @ \o last'.vulnerabilities,
                            !.offset = @ + walk.limit,
                            !.done = (walk.offset + walk.limit >= last'.total_count)]

\* the rows of the Vulnerability table: one per id, its columns drawn from D
StoresOf(ids, D) == {{[id |-> i] @@ g[i] : i \in ids} : g \in [ids -> D]}

NoFilter ==
    [device_id |-> Null, scan_session_id |-> Null, severity |-> Null,
     source_tool |-> Null, cve_id |-> Null]

InitScan ==
    /\ scans = <<>>
    /\ now = 0
    /\ resp = NoResp
    /\ polls = [s \in SessionIds |-> 0]
    /\ snap = [s \in SessionIds |-> NoBody]

InitConc ==
    /\ pc = [t \in Threads |-> "idle"]
    /\ tsid = [t \in Threads |-> 0]
    /\ treg = [t \in Threads |-> Zero]
    /\ applied = [s \in SessionIds |-> 0]
    /\ completions = [s \in SessionIds |-> 0]

InitVuln ==
    /\ store = {}
    /\ last = [op |-> "none"]
    /\ walk = [on |-> FALSE]
    /\ deleted = {}

Init == InitScan /\ InitConc /\ InitVuln

\* the scan endpoints, one request at a time
Next ==
    \/ \E target \in TargetRanges : start_scan(target)
    \/ \E sid \in SessionIds : get_scan_status_unknown(sid)
    \/ \E sid \in SessionIds : get_scan_status(sid)
    \/ Tick

Spec == Init /\ [][Next]_vars

\* one scan session with status requests on it running concurrently
NextConc ==
    \/ DOMAIN scans = {} /\ \E target \in TargetRanges : start_scan(target)
    \/ \E t \in Threads, sid \in SessionIds : T_Begin(t, sid)
    \/ \E t \in Threads : T_Check(t)
    \/ \E t \in Threads : T_Load(t)
    \/ \E t \in Threads : T_Store(t)
    \/ \E t \in Threads : T_Test(t)
    \/ \E t \in Threads : T_SetStatus(t)
    \/ \E t \in Threads : T_SetCompletedAt(t)
    \/ \E t \in Threads : T_SetDeviceCount(t)
    \/ \E t \in Threads : T_Return(t)
    \/ Tick

SpecConc == Init /\ [][NextConc]_vars

\* GET /vulnerabilities applied once to a table and a parameter set
QueryFields ==
    [device_id : {Null, "d1"}, scan_session_id : {Null, "s1"},
     severity : {"high", "low"}, source_tool : {"nmap", "zap"},
     cve_id : {Null, "CVE-A"}, detected_at : {1}]

QueryFilters ==
    [device_id : {Null, "d1"}, scan_session_id : {Null, "s1"},
     severity : {Null, "high"}, source_tool : {Null, "nmap"},
     cve_id : {Null, "", "CVE-A"}]

InitQuery ==
    /\ InitScan /\ InitConc
    /\ store \in StoresOf(1..MaxQueryVulns, QueryFields)
    /\ last = [op |-> "none"]
    /\ walk = [on |-> FALSE]
    /\ deleted = {}

NextQuery ==
    /\ last.op = "none"
    /\ \E f \in QueryFilters, limit \in 0..MaxLimit, offset \in 0..MaxOffset :
          get_vulnerabilities(f, limit, offset)
    /\ UNCHANGED walk

SpecQuery == InitQuery /\ [][NextQuery]_vars

\* a client paging through GET /vulnerabilities over an unchanged table
PageFields ==
    [device_id : {"d1"}, scan_session_id : {Null}, severity : {"high", "low"},
     source_tool : {"nmap"}, cve_id : {Null}, detected_at : {1, 2}]

PageFilters == {NoFilter, [NoFilter EXCEPT !.severity = "high"]}

InitPage ==
    /\ InitScan /\ InitConc
    /\ store \in StoresOf(1..MaxPageVulns, PageFields)
    /\ last = [op |-> "none"]
    /\ walk = [on |-> FALSE]
    /\ deleted = {}

NextPage ==
    \/ \E f \in PageFilters, limit \in 1..MaxLimit : BeginWalk(f, limit)
    \/ FetchPage

SpecPage == InitPage /\ [][NextPage]_vars

\* GET /vulnerabilities/stats/summary as time passes
StatsFields ==
    [device_id : {"d1"}, scan_session_id : {Null}, severity : {"critical", "low"},
     source_tool : {"nmap", "zap"}, cve_id : {Null, "CVE-A"},
     detected_at : 0..MaxTime]

InitStats ==
    /\ scans = <<>> /\ now \in 0..MaxTime /\ resp = NoResp
    /\ polls = [s \in SessionIds |-> 0]
    /\ snap = [s \in SessionIds |-> NoBody]
    /\ InitConc
    /\ store \in StoresOf(1..MaxVulns, StatsFields)
    /\ last = [op |-> "none"]
    /\ walk = [on |-> FALSE]
    /\ deleted = {}

NextStats == \E hours \in 0..MaxHours : get_vulnerability_stats(hours)

SpecStats == InitStats /\ [][NextStats]_vars

\* lookups, deletes and queries on one table
StoreFields ==
    [device_id : {Null, "d1"}, scan_session_id : {Null}, severity : {"high", "low"},
     source_tool : {"nmap"}, cve_id : {Null}, detected_at : {1}]

StoreFilters == {NoFilter, [NoFilter EXCEPT !.device_id = "d1"]}

InitStore ==
    /\ InitScan /\ InitConc
    /\ store \in StoresOf(1..MaxVulns, StoreFields)
    /\ last = [op |-> "none"]
    /\ walk = [on |-> FALSE]
    /\ deleted = {}

NextStore ==
    \/ \E id \in 1..(MaxVulns + 1) : delete_vulnerability(id)
    \/ \E id \in 1..(MaxVulns + 1) : get_vulnerability_detail(id)
    \/ \E f \in StoreFilters, limit \in 1..MaxLimit, offset \in 0..MaxOffset :
          get_vulnerabilities(f, limit, offset) /\ UNCHANGED walk

SpecStore == InitStore /\ [][NextStore]_vars

\* GET /vulnerabilities/device/{device_id}
DeviceFields ==
    [device_id : {Null, "d1", "d9"}, scan_session_id : {Null}, severity : Buckets,
     source_tool : {"nmap"}, cve_id : {Null}, detected_at : {1, 2}]

InitDevice ==
    /\ InitScan /\ InitConc
    /\ store \in StoresOf(1..MaxVulns, DeviceFields)
    /\ last = [op |-> "none"]
    /\ walk = [on |-> FALSE]
    /\ deleted = {}

NextDevice == \E d \in {"d1", "d2", "d9"} : get_device_vulnerabilities(d)

SpecDevice == InitDevice /\ [][NextDevice]_vars

(***************************************************************************)
(* Properties of the scan-session lifecycle.                               *)
(***************************************************************************)
InUnitInterval(p) == DLeq(Zero, p) /\ DLeq(p, One)

\* C1: across StartScan and GetStatus calls a session's progress never
\* decreases, stays within [0.0, 1.0], and is exactly 1.0 whenever the
\* session's status is completed.
C1_ProgressMonotoneBounded ==
    [][\A s \in DOMAIN scans' :
          /\ InUnitInterval(scans'[s].progress)
          /\ (scans'[s].status = "completed" => scans'[s].progress = One)
          /\ (s \in DOMAIN scans =>
                 DLeq(scans[s].progress, scans'[s].progress))]_vars

\* C2: in every reachable state of every session, completed_at is set if
\* and only if status is completed.
C2_CompletedAtIffCompleted ==
    \A s \in DOMAIN scans :
        (scans[s].completed_at # NoTime) <=> (scans[s].status = "completed")

\* C2 witness: one session completed with its timestamp, after polls that
\* left it in progress.
C2_Witness ==
    \E s \in DOMAIN scans :
        /\ scans[s].status = "completed"
        /\ scans[s].completed_at # NoTime
        /\ polls[s] > 1

\* C3: once a session is completed, a further GetStatus call returns the
\* same snapshot as the call before it and leaves the stored record as it
\* was; the session stays completed.
C3_CompletedIsTerminal ==
    [][\A s \in DOMAIN scans :
          scans[s].status = "completed" =>
              /\ s \in DOMAIN scans'
              /\ scans'[s] = scans[s]
              /\ (polls'[s] # polls[s] =>
                     /\ resp'.op = "status" /\ resp'.sid = s /\ resp'.code = 200
                     /\ resp'.body = snap[s])]_vars

\* C3 witness: a GetStatus call answered on a session that was already
\* completed when the call was made.
C3_Witness ==
    /\ resp.op = "status" /\ resp.code = 200
    /\ scans[resp.sid].status = "completed"
    /\ resp.body.status = "completed"
    /\ polls[resp.sid] >= 12

\* C4: after start_scan (in_progress, progress 0.0), the first nine get_scan_status
\* calls return in_progress with device_count still 0, and the tenth returns
\* completed with progress 1.0, completed_at set and device_count equal to
\* the number of known devices.
C4_TenthPollCompletes ==
    /\ (resp.op = "start" =>
           resp.body.status = "in_progress" /\ resp.body.progress = Zero)
    /\ (resp.op = "status" /\ resp.code = 200 =>
           LET k == polls[resp.sid]
               sc == scans[resp.sid]
           IN  /\ (k \in 1..9 =>
                      /\ resp.body.status = "in_progress"
                      /\ sc.device_count = 0
                      /\ sc.completed_at = NoTime)
               /\ (k = 10 =>
                      /\ resp.body.status = "completed"
                      /\ resp.body.progress = One
                      /\ sc.completed_at # NoTime
                      /\ sc.device_count = NumDevices))

RECURSIVE NTenths(_)
NTenths(k) == IF k = 0 THEN Zero ELSE FAdd(NTenths(k - 1), Tenth)

\* C5: with GetStatus calls on one session interleaving, every increment
\* takes effect exactly once (the stored progress is the result of as many
\* additions of 0.1 as were executed) and the transition to completed
\* happens exactly once.
C5_IncrementsExactlyOnce ==
    \A s \in DOMAIN scans :
        /\ scans[s].progress = NTenths(applied[s])
        /\ completions[s] <= 1

(***************************************************************************)
(* Properties of the vulnerability endpoints.                              *)
(***************************************************************************)
FilterKeys == {"device_id", "scan_session_id", "severity", "source_tool", "cve_id"}

\* v equals f on every filter of f whose value is not among `absent`
Satisfies(v, f, absent) == \A k \in FilterKeys : f[k] \notin absent => v[k] = f[k]

QueryAnswers(absent) ==
    last.op = "query" =>
        /\ \A i \in 1..Len(last.vulnerabilities) :
              /\ last.vulnerabilities[i] \in store
              /\ Satisfies(last.vulnerabilities[i], last.filters, absent)
        /\ last.total_count =
              Cardinality({v \in store : Satisfies(v, last.filters, absent)})

\* C6 as stated: for every filter set, get_vulnerabilities returns only
\* records that equal every supplied filter value, and total_count is the
\* number of records of the table matching them, whatever limit and offset.
C6_SuppliedFiltersExact == QueryAnswers({Null})

\* C6 as amended: the same for every supplied non-empty filter value; a
\* filter given as the empty string is not applied.
C6_NonEmptyFiltersExact == QueryAnswers({Null, ""})

\* C6 witness: two filters supplied, one record matching both, and a page
\* cut short of the total by the offset.
C6_Witness ==
    /\ last.op = "query"
    /\ last.filters.device_id = "d1" /\ last.filters.severity = "high"
    /\ last.total_count = 1
    /\ last.offset >= 1 /\ last.returned_count = 0

IsPermutationOf(rows, S) ==
    /\ Len(rows) = Cardinality(S)
    /\ {rows[i] : i \in 1..Len(rows)} = S

InFixedOrder(rows) == \A i \in 1..(Len(rows) - 1) : MayPrecede(rows[i], rows[i + 1])

\* C7: over an unchanged table, each page holds min(limit, total_count -
\* offset) records (none past the end), and the pages at offsets 0, limit,
\* 2*limit, ... concatenated are the whole filtered set in the fixed order,
\* no record twice and none missing, ties on both sort keys included.
C7_PagesPartitionResult ==
    /\ (last.op = "query" =>
           last.returned_count =
              (IF last.offset >= last.total_count THEN 0
               ELSE IF last.limit < last.total_count - last.offset
                    THEN last.limit ELSE last.total_count - last.offset))
    /\ (walk.on /\ walk.done =>
           /\ IsPermutationOf(walk.pages, {v \in store : Matches(v, walk.filters)})
           /\ InFixedOrder(walk.pages))

StatsCount(W) ==
    /\ last.total_vulnerabilities = Cardinality(W)
    /\ DOMAIN last.severity_distribution = {v.severity : v \in W}
    /\ \A k \in DOMAIN last.severity_distribution :
          last.severity_distribution[k] = Cardinality({v \in W : v.severity = k})
    /\ DOMAIN last.source_tool_distribution = {v.source_tool : v \in W}
    /\ \A k \in DOMAIN last.source_tool_distribution :
          last.source_tool_distribution[k] =
              Cardinality({v \in W : v.source_tool = k})
    /\ last.critical_vulnerabilities = Cardinality({v \in W : v.severity = "critical"})
    /\ last.high_vulnerabilities = Cardinality({v \in W : v.severity = "high"})

\* C8 as stated: the summary counts exactly the vulnerabilities detected in
\* the closed window [now - window_hours, now].
C8_ClosedWindow ==
    last.op = "stats" =>
        StatsCount({v \in store : /\ v.detected_at >= last.at - last.hours
                                  /\ v.detected_at <= last.at})

\* C8 as amended: the summary counts exactly the vulnerabilities detected at
\* or after now - window_hours; a record dated after now is counted too.
C8_FromCutoff ==
    last.op = "stats" =>
        StatsCount({v \in store : v.detected_at >= last.at - last.hours})

\* C8 witness: a summary over a table holding a record detected before the
\* cutoff (left out) and a record dated after now (counted).
C8_Witness ==
    /\ last.op = "stats"
    /\ \E v \in store : v.detected_at < last.at - last.hours
    /\ \E v \in store : v.detected_at > last.at
    /\ last.total_vulnerabilities = 1

HasId(S, id) == \E v \in S : v.id = id

\* C9: deleting an existing id removes exactly that record and nothing
\* else; afterwards a lookup or a second delete of the id answers 404 and
\* no query returns the record; deleting an unknown id answers 404 and
\* leaves the table as it was.
C9_DeleteRemovesExactlyOne ==
    [][/\ (last'.op = "delete" /\ last' # last =>
              IF HasId(store, last'.id)
              THEN /\ last'.code = 200
                   /\ store' = {v \in store : v.id # last'.id}
              ELSE /\ last'.code = 404
                   /\ store' = store)
       /\ (last'.op # "delete" => store' = store)
       /\ \A id \in deleted :
             last'.op \in {"get", "delete"} /\ last'.id = id => last'.code = 404
       /\ \A id \in deleted' :
             /\ ~HasId(store', id)
             /\ (last'.op = "query" =>
                    \A i \in 1..Len(last'.vulnerabilities) :
                        last'.vulnerabilities[i].id # id)]_vars

\* C9 witness: a second delete of an id already deleted, answered 404, with
\* another record still in the table.
C9_Witness ==
    /\ last.op = "delete" /\ last.code = 404
    /\ last.id \in deleted
    /\ store # {}

Occurrences(rows, v) == Cardinality({i \in 1..Len(rows) : rows[i] = v})

\* C10: for a known device the report has exactly the five buckets, each
\* vulnerability of the device is in exactly one bucket, the one of its own
\* severity, in the fixed order within the bucket, and the five counts sum
\* to total; for an unknown device the answer is 404 whether or not
\* vulnerabilities reference it.
C10_DeviceReportBuckets ==
    last.op = "device" =>
        IF last.device_id \notin Devices THEN last.code = 404
        ELSE LET mine == {v \in store : v.device_id = last.device_id}
                 g == last.vulnerabilities
             IN  /\ last.code = 200
                 /\ DOMAIN g = {"critical", "high", "medium", "low", "info"}
                 /\ \A v \in mine : \A b \in DOMAIN g :
                       Occurrences(g[b], v) = (IF b = v.severity THEN 1 ELSE 0)
                 /\ \A b \in DOMAIN g :
                       /\ \A i \in 1..Len(g[b]) : g[b][i] \in mine
                       /\ InFixedOrder(g[b])
                       /\ last.counts[b] = Len(g[b])
                 /\ last.total = Cardinality(mine)
                 /\ last.counts["critical"] + last.counts["high"]
                       + last.counts["medium"] + last.counts["low"]
                       + last.counts["info"] = last.total

\* C10 witness: a report for a known device with two vulnerabilities in
\* different buckets, one of them low, while another device id is unknown.
C10_Witness ==
    /\ last.op = "device" /\ last.code = 200
    /\ last.total = 2
    /\ last.counts["low"] = 1 /\ last.counts["critical"] = 1

====
